---- MODULE Spec2Model ----
(***************************************************************************)
(* A model of the insteon-serial decoders (src/src/serial.rs) and of the   *)
(* codecs they call (command.rs, x10.rs, message.rs, link.rs, device.rs).  *)
(*                                                                         *)
(* The serial port is a byte source: `stream` is what the modem sends,     *)
(* `arrived` how much of it has reached the port's buffer, `pos` how much  *)
(* the decoder has read.  next_message / next_response are followed from   *)
(* one port operation to the next (pc), since each port operation may      *)
(* wait, succeed or fail.                                                  *)
(***************************************************************************)
EXTENDS Integers, Sequences, FiniteSets, TLC

VARIABLES
    segs,      \* the segments (frames, noise) that make up the stream
    stream,    \* every byte the modem sends, in order
    arrived,   \* number of bytes of stream that reached the port buffer
    pos,       \* number of bytes the decoder has read from the port
    pc,        \* "idle" | "marker" | "opcode" | "payload" | "panicked"
    fn,        \* the decode function in progress: "message" | "response"
    op,        \* the opcode byte of the current attempt
    todo,      \* the port reads the current match arm still has to do
    buf,       \* the payload bytes the current match arm has read
    results,   \* the values returned so far, one record per call that returned
    spun,      \* the last availability query reported zero bytes
    panic,     \* why the process aborted ("none" while it has not)
    last_byte, \* what the last call of next_byte that returned, returned
    val,       \* the value a caller of the codecs has at hand
    hist       \* the codec functions applied so far: [f, arg, out] each

vars == <<segs, stream, arrived, pos, pc, fn, op, todo, buf, results, spun, panic,
          last_byte, val, hist>>

Byte == 0..255

(***************************************************************************)
(* Rust values.  Option<T> is None or Some(x); an enum value is a tuple    *)
(* whose first element is the variant's name.                              *)
(***************************************************************************)
None == <<"None">>
Some(x) == <<"Some", x>>

\* Before next_byte has returned for the first time; before a caller of the
\* codecs has a value.
NoByteYet == <<"no byte yet">>
NoValue == <<"no value">>

RECURSIVE BitAnd(_, _)
BitAnd(a, b) ==
    IF a = 0 \/ b = 0 THEN 0
    ELSE (a % 2) * (b % 2) + 2 * BitAnd(a \div 2, b \div 2)

Shr(a, k) == a \div (2 ^ k)

(***************************************************************************)
(* device.rs                                                               *)
(***************************************************************************)
Address(bytes) == <<"Address", bytes>>

\* impl Index<usize> for Address: `&self.0[index]` (index counts from 0)
Address_index(a, index) == a[2][index + 1]

\* The three bytes combined low byte first.
Address_reduce_reversed(a) ==
    LET high == a[2][1]
        middle == a[2][2]
        low == a[2][3]
    IN  (low * (2 ^ 16)) + (middle * (2 ^ 8)) + high

\* Address::reduce: `(high << 16) + (middle << 8) + low` on u32.  Each operand
\* is a u8 widened to u32, so no shift loses a bit and the sum is below 2^24:
\* the u32 arithmetic is exact.
Address_reduce(a) ==
    LET high == a[2][1]
        middle == a[2][2]
        low == a[2][3]
    IN  (high * (2 ^ 16)) + (middle * (2 ^ 8)) + low

(***************************************************************************)
(* command.rs                                                              *)
(***************************************************************************)
GroupNumber(b) == <<"GroupNumber", b>>
OnLevel(b) == <<"OnLevel", b>>

\* Group 0 read as a group like any other.
group_or_none_always(byte) == Some(GroupNumber(byte))

group_or_none(byte) == IF byte = 0 THEN None ELSE Some(GroupNumber(byte))

Command_try_from(bytes) ==
    CASE bytes[1] = \H11 -> Some(<<"On", GroupNumber(bytes[2])>>)
      [] bytes[1] = \H12 -> Some(<<"FastOn", group_or_none(bytes[2])>>)
      [] bytes[1] = \H13 -> Some(<<"Off", group_or_none(bytes[2])>>)
      [] bytes[1] = \H14 -> Some(<<"FastOff", group_or_none(bytes[2])>>)
      [] bytes[1] = \H15 -> Some(<<"Bright", group_or_none(bytes[2])>>)
      [] bytes[1] = \H16 -> Some(<<"Dim", group_or_none(bytes[2])>>)
      [] bytes[1] = \H17 -> Some(<<"Start", IF bytes[2] = \H01 THEN <<"Bright">> ELSE <<"Dim">> >>)
      [] bytes[1] = \H18 -> Some(<<"Stop">>)
      [] bytes[1] = \H10 -> Some(<<"IdRequest">>)
      [] bytes[1] = \H19 -> Some(<<"StatusRequest">>)
      [] bytes[1] = \H09 -> Some(<<"BeginLinking", GroupNumber(bytes[2])>>)
      [] bytes[1] = \H0A -> Some(<<"BeginUnlinking", GroupNumber(bytes[2])>>)
      [] bytes[1] = \H08 -> Some(<<"CancelLinking">>)
      [] OTHER -> None

\* The group of an absent Option taken for group 255.
group_or_zero_ff(group) == IF group = None THEN \HFF ELSE group[2][2]

\* `group.map(|g| g.0).unwrap_or(0)`
group_or_zero(group) == IF group = None THEN \H00 ELSE group[2][2]

\* An on level that is not written to the second byte.
OnPayload_two_dropped(payload) ==
    CASE payload[1] = "OnLevel" -> \H00
      [] payload[1] = "GroupNumber" -> payload[2]

\* `let two = match payload { OnLevel(level) => level.0, GroupNumber(group) => group.0 }`
OnPayload_two(payload) ==
    CASE payload[1] = "OnLevel" -> payload[2]
      [] payload[1] = "GroupNumber" -> payload[2]

\* The two directions written the other way round.
BrightDim_two_swapped(dir) ==
    CASE dir[1] = "Bright" -> \H00
      [] dir[1] = "Dim" -> \H01

\* `let two = match dir { BrightDim::Bright => 0x01, BrightDim::Dim => 0x00 }`
BrightDim_two(dir) ==
    CASE dir[1] = "Bright" -> \H01
      [] dir[1] = "Dim" -> \H00

\* impl Into<[u8; 2]> for Command
Command_into(c) ==
    CASE c[1] = "On" -> <<\H11, OnPayload_two(c[2])>>
      [] c[1] = "FastOn" -> <<\H12, group_or_zero(c[2])>>
      [] c[1] = "Off" -> <<\H13, group_or_zero(c[2])>>
      [] c[1] = "FastOff" -> <<\H14, group_or_zero(c[2])>>
      [] c[1] = "Bright" -> <<\H15, group_or_zero(c[2])>>
      [] c[1] = "Dim" -> <<\H16, group_or_zero(c[2])>>
      [] c[1] = "Start" -> <<\H17, BrightDim_two(c[2])>>
      [] c[1] = "Stop" -> <<\H18, \H00>>
      [] c[1] = "IdRequest" -> <<\H10, \H00>>
      [] c[1] = "StatusRequest" -> <<\H19, \H00>>
      [] c[1] = "BeginLinking" -> <<\H09, c[2][2]>>
      [] c[1] = "BeginUnlinking" -> <<\H0A, c[2][2]>>
      [] c[1] = "CancelLinking" -> <<\H08, \H00>>

(***************************************************************************)
(* x10.rs                                                                  *)
(***************************************************************************)
HouseCode_try_from(byte) ==
    CASE byte = \H6 -> Some("A")
      [] byte = \HE -> Some("B")
      [] byte = \H2 -> Some("C")
      [] byte = \HA -> Some("D")
      [] byte = \H1 -> Some("E")
      [] byte = \H9 -> Some("F")
      [] byte = \H5 -> Some("G")
      [] byte = \HD -> Some("H")
      [] byte = \H7 -> Some("I")
      [] byte = \HF -> Some("J")
      [] byte = \H3 -> Some("K")
      [] byte = \HB -> Some("L")
      [] byte = \H0 -> Some("M")
      [] byte = \H8 -> Some("N")
      [] byte = \H4 -> Some("O")
      [] byte = \HC -> Some("P")
      [] OTHER -> None

UnitCode_try_from(byte) ==
    CASE byte = \H6 -> Some(1)
      [] byte = \HE -> Some(2)
      [] byte = \H2 -> Some(3)
      [] byte = \HA -> Some(4)
      [] byte = \H1 -> Some(5)
      [] byte = \H9 -> Some(6)
      [] byte = \H5 -> Some(7)
      [] byte = \HD -> Some(8)
      [] byte = \H7 -> Some(9)
      [] byte = \HF -> Some(10)
      [] byte = \H3 -> Some(11)
      [] byte = \HB -> Some(12)
      [] byte = \H0 -> Some(13)
      [] byte = \H8 -> Some(14)
      [] byte = \H4 -> Some(15)
      [] byte = \HC -> Some(16)
      [] OTHER -> None

X10Command_try_from(byte) ==
    CASE byte = \H6 -> Some("AllLightsOff")
      [] byte = \HE -> Some("StatusOff")
      [] byte = \H2 -> Some("On")
      [] byte = \HA -> Some("PresetDim")
      [] byte = \H1 -> Some("AllLightsOn")
      [] byte = \H9 -> Some("HailAcknowledge")
      [] byte = \H5 -> Some("Bright")
      [] byte = \HD -> Some("StatusOn")
      [] byte = \H7 -> Some("ExtendedCode")
      [] byte = \HF -> Some("StatusRequest")
      [] byte = \H3 -> Some("Off")
      [] byte = \HB -> Some("PresetDim")
      [] byte = \H0 -> Some("AllUnitsOff")
      [] byte = \H8 -> Some("HailRequest")
      [] byte = \H4 -> Some("Dim")
      [] byte = \HC -> Some("ExtendedAnalogData")
      [] OTHER -> None

\* Message { house, payload, success }
X10Message(house, payload, success) ==
    [house |-> house, payload |-> payload, success |-> success]

\* A flag test that only tells a command from everything else.
X10Payload_anyflag(flag, low) ==
    IF flag = \H80
    THEN LET cmd == X10Command_try_from(low)
         IN  IF cmd = None THEN None ELSE Some(<<"Command", cmd[2]>>)
    ELSE LET unit == UnitCode_try_from(low)
         IN  IF unit = None THEN None ELSE Some(<<"UnitCode", unit[2]>>)

\* `match flag { 0x00 => UnitCode::try_from(low)..., 0x80 => Command::try_from(low)..., _ => None }`
X10Payload(flag, low) ==
    CASE flag = \H00 ->
            LET unit == UnitCode_try_from(low)
            IN  IF unit = None THEN None ELSE Some(<<"UnitCode", unit[2]>>)
      [] flag = \H80 ->
            LET cmd == X10Command_try_from(low)
            IN  IF cmd = None THEN None ELSE Some(<<"Command", cmd[2]>>)
      [] OTHER -> None

\* The two nibbles of the first byte taken the other way round.
X10Message_try_from_swapped(bytes) ==
    LET byte == bytes[1]
        high == BitAnd(byte, \H0F)
        low == Shr(byte, 4)
        flag == bytes[2]
        success == bytes[3] = \H06
        house == HouseCode_try_from(high)
    IN  IF house = None THEN None
        ELSE LET payload == X10Payload(flag, low)
             IN  IF payload = None THEN None
                 ELSE Some(X10Message(house[2], payload[2], success))

X10Message_try_from(bytes) ==
    LET byte == bytes[1]
        high == Shr(byte, 4)
        low == BitAnd(byte, \H0F)
        flag == bytes[2]
        success == bytes[3] = \H06
        house == HouseCode_try_from(high)
    IN  IF house = None THEN None
        ELSE LET payload == X10Payload(flag, low)
             IN  IF payload = None THEN None
                 ELSE Some(X10Message(house[2], payload[2], success))

(***************************************************************************)
(* message.rs: Config                                                      *)
(***************************************************************************)
\* busy_reject read from bit 2.
Config_from_low(byte) ==
    [auto_link   |-> BitAnd(byte, 128) = 0,
     monitor     |-> BitAnd(byte, 64) = 64,
     manual_led  |-> BitAnd(byte, 32) = 32,
     timeout     |-> BitAnd(byte, 16) = 0,
     busy_reject |-> BitAnd(byte, 4) = 4]

Config_from(byte) ==
    [auto_link   |-> BitAnd(byte, 128) = 0,
     monitor     |-> BitAnd(byte, 64) = 64,
     manual_led  |-> BitAnd(byte, 32) = 32,
     timeout     |-> BitAnd(byte, 16) = 0,
     busy_reject |-> BitAnd(byte, 8) = 8]

\* `b as u8`, `a << k` and `a | b` on u8
Bit(b) == IF b THEN 1 ELSE 0
Shl(a, k) == (a * (2 ^ k)) % 256

RECURSIVE BitOr(_, _)
BitOr(a, b) ==
    IF a = 0 THEN b
    ELSE IF b = 0 THEN a
    ELSE (IF a % 2 = 1 \/ b % 2 = 1 THEN 1 ELSE 0) + 2 * BitOr(a \div 2, b \div 2)

\* The flags written as they are, none of them inverted.
Config_into_plain(cfg) ==
    BitOr(BitOr(BitOr(BitOr(Shl(Bit(cfg.auto_link), 7),
                            Shl(Bit(cfg.monitor), 6)),
                      Shl(Bit(cfg.manual_led), 5)),
                Shl(Bit(cfg.timeout), 4)),
          Shl(Bit(cfg.busy_reject), 3))

\* impl Into<u8> for Config
Config_into(cfg) ==
    BitOr(BitOr(BitOr(BitOr(Shl(Bit(~cfg.auto_link), 7),
                            Shl(Bit(cfg.monitor), 6)),
                      Shl(Bit(cfg.manual_led), 5)),
                Shl(Bit(~cfg.timeout), 4)),
          Shl(Bit(cfg.busy_reject), 3))

\* impl Default for Config
Config_default ==
    [auto_link |-> TRUE, monitor |-> FALSE, manual_led |-> FALSE,
     timeout |-> TRUE, busy_reject |-> FALSE]

(***************************************************************************)
(* link.rs                                                                 *)
(***************************************************************************)
LinkData(data) == <<"LinkData", data>>

\* Only 0xFF read as a deleted link, every other byte but 0x00 as controller.
LinkResult_from_ff(bytes) ==
    [is_controller |-> CASE bytes[1] = \H00 -> Some(FALSE)
                         [] bytes[1] = \HFF -> None
                         [] OTHER -> Some(TRUE),
     group    |-> bytes[2],
     id       |-> Address(<<bytes[3], bytes[4], bytes[5]>>),
     category |-> <<bytes[6], bytes[7]>>,
     firmware |-> IF bytes[8] = \HFF THEN None ELSE Some(bytes[8])]

LinkResult_from(bytes) ==
    [is_controller |-> CASE bytes[1] = \H00 -> Some(FALSE)
                         [] bytes[1] = \H01 -> Some(TRUE)
                         [] OTHER -> None,
     group    |-> bytes[2],
     id       |-> Address(<<bytes[3], bytes[4], bytes[5]>>),
     category |-> <<bytes[6], bytes[7]>>,
     firmware |-> IF bytes[8] = \HFF THEN None ELSE Some(bytes[8])]

\* The methods of LinkResult
LinkResult_group(r) == r.group
LinkResult_is_slave(r) == r.is_controller = Some(FALSE)
LinkResult_is_responder(r) == LinkResult_is_slave(r)
LinkResult_is_master(r) == r.is_controller = Some(TRUE)
LinkResult_is_controller(r) == LinkResult_is_master(r)
LinkResult_deleted(r) == r.is_controller = None
LinkResult_id(r) == r.id
LinkResult_category(r) == IF LinkResult_is_controller(r) THEN Some(r.category[1]) ELSE None
LinkResult_subcategory(r) == IF LinkResult_is_controller(r) THEN Some(r.category[2]) ELSE None
LinkResult_firmware(r) == IF LinkResult_is_controller(r) THEN r.firmware ELSE None

(***************************************************************************)
(* button.rs and the 0x54 arm of next_message                              *)
(***************************************************************************)
ButtonEvent(byte) ==
    CASE byte = \H02 -> Some(<<"Tapped", "Set">>)
      [] byte = \H03 -> Some(<<"Held", "Set">>)
      [] byte = \H04 -> Some(<<"Released", "Set">>)
      [] byte = \H12 -> Some(<<"Tapped", "Two">>)
      [] byte = \H13 -> Some(<<"Held", "Two">>)
      [] byte = \H14 -> Some(<<"Released", "Two">>)
      [] byte = \H22 -> Some(<<"Tapped", "Three">>)
      [] byte = \H23 -> Some(<<"Held", "Three">>)
      [] byte = \H24 -> Some(<<"Released", "Three">>)
      [] OTHER -> None

(***************************************************************************)
(* serial.rs: what one iteration of the decode loop ends with              *)
(***************************************************************************)
Break(v) == <<"break", v>>
Continue == <<"continue">>
Unimplemented == <<"unimplemented">>

\* The two ways the code reads from the port.
NB == <<"next_byte", 1>>
RE(n) == <<"read_exact", n>>

START == \H02


(***************************************************************************)
(* next_message: the port reads of each match arm, in the order the code   *)
(* makes them, and the value the arm builds from the bytes read (b is the  *)
(* concatenation of what those reads returned).                            *)
(***************************************************************************)
MessageReads(opcode) ==
    CASE opcode = \H50 -> <<RE(6)>>
      [] opcode = \H51 -> <<RE(20)>>
      [] opcode = \H52 -> <<RE(3)>>
      [] opcode = \H53 -> <<RE(8)>>
      [] opcode = \H54 -> <<NB>>
      [] opcode = \H55 -> <<>>
      [] opcode = \H56 -> <<NB, RE(4)>>
      [] opcode = \H57 -> <<NB, NB, RE(3), RE(3)>>
      [] opcode = \H58 -> <<NB>>
      [] opcode = \H59 -> <<RE(2), NB, NB, RE(3), RE(3)>>
      [] OTHER -> <<>>

\* The extended data taken one byte early.
ExtendedData_early(b) ==
    <<b[6], b[7], b[8], b[9], b[10], b[11], b[12], b[13],
      b[14], b[15], b[16], b[17], b[18], b[19]>>

\* `let data = [buf[6], ..., buf[19]]` of the 0x51 arm
ExtendedData(b) ==
    <<b[7], b[8], b[9], b[10], b[11], b[12], b[13], b[14],
      b[15], b[16], b[17], b[18], b[19], b[20]>>

MessageArm(opcode, b) ==
    CASE opcode = \H50 ->
            Break(<<"Received", Address(<<b[1], b[2], b[3]>>),
                    Command_try_from(<<b[4], b[5]>>), b[6], None>>)
      [] opcode = \H51 ->
            Break(<<"Received", Address(<<b[1], b[2], b[3]>>),
                    Command_try_from(<<b[4], b[5]>>), b[6],
                    Some(ExtendedData(b))>>)
      [] opcode = \H52 ->
            LET msg == X10Message_try_from(b)
            IN  IF msg # None THEN Break(<<"X10Received", msg[2]>>) ELSE Continue
      [] opcode = \H53 -> Break(<<"LinkComplete", LinkResult_from(b)>>)
      [] opcode = \H54 ->
            LET ev == ButtonEvent(b[1])
            IN  IF ev # None THEN Break(<<"ButtonEvent", ev[2]>>) ELSE Continue
      [] opcode = \H55 -> Break(<<"UserResetDetected">>)
      [] opcode = \H56 ->
            Break(<<"LinkCleanupFailed", b[2], Address(<<b[3], b[4], b[5]>>)>>)
      [] opcode = \H57 ->
            Break(<<"LinkRecordResponse", b[1], b[2], Address(<<b[3], b[4], b[5]>>),
                    LinkData(<<b[6], b[7], b[8]>>)>>)
      [] opcode = \H58 -> Break(<<"LinkCleanupStatus", b[1] = \H06>>)
      [] opcode = \H59 ->
            Break(<<"DatabaseRecordFound", <<b[1], b[2]>>, b[3], b[4],
                    Address(<<b[5], b[6], b[7]>>), LinkData(<<b[8], b[9], b[10]>>)>>)
      [] OTHER -> Continue

(***************************************************************************)
(* next_response                                                           *)
(***************************************************************************)
ResponseReads(opcode) ==
    CASE opcode = \H60 -> <<RE(6)>>
      [] opcode = \H61 -> <<RE(3)>>
      [] opcode = \H63 -> <<RE(3)>>
      [] opcode = \H64 -> <<RE(2)>>
      [] opcode = \H66 -> <<RE(3)>>
      [] opcode = \H68 -> <<NB>>
      [] opcode = \H6B -> <<NB>>
      [] opcode = \H6F -> <<RE(9)>>
      [] opcode = \H70 -> <<NB>>
      [] opcode = \H71 -> <<RE(2)>>
      [] opcode = \H73 -> <<RE(3)>>
      [] OTHER -> <<>>

ResponseArm(opcode, b) ==
    CASE opcode = \H60 ->
            Break(<<"GotInfo", Address(<<b[1], b[2], b[3]>>), <<b[4], b[5]>>,
                    IF b[6] = \HFF THEN None ELSE Some(b[6])>>)
      [] opcode = \H61 -> Break(<<"SentLinkCommand", b[1], b[2], b[3]>>)
      [] opcode = \H62 -> Unimplemented
      [] opcode = \H63 ->
            LET msg == X10Message_try_from(b)
            IN  IF msg # None THEN Break(<<"SentX10", msg[2]>>) ELSE Continue
      [] opcode = \H64 -> Break(<<"StartedLink", b[1], b[2]>>)
      [] opcode = \H65 -> Break(<<"CanceledLink">>)
      [] opcode = \H66 ->
            Break(<<"SetCategory", <<b[1], b[2]>>,
                    IF b[3] = \H00 THEN None ELSE Some(b[3])>>)
      [] opcode = \H67 -> Break(<<"Reset">>)
      [] opcode = \H68 -> Break(<<"SetAckByte", b[1]>>)
      [] opcode = \H69 -> Break(<<"GotFirstLinkRecord">>)
      [] opcode = \H6A -> Break(<<"GotNextLinkRecord">>)
      [] opcode = \H6B -> Break(<<"SetConfig", Config_from(b[1])>>)
      [] opcode = \H6C -> Break(<<"GotSenderLinkRecord">>)
      [] opcode = \H6D -> Break(<<"LedOn">>)
      [] opcode = \H6E -> Break(<<"LedOff">>)
      [] opcode = \H6F ->
            Break(<<"UpdatedLinkRecord", b[1], b[2], b[3],
                    Address(<<b[4], b[5], b[6]>>), <<b[7], b[8], b[9]>> >>)
      [] opcode = \H70 -> Break(<<"SetNakByte", b[1]>>)
      [] opcode = \H71 -> Break(<<"SetAckBytes", <<b[1], b[2]>> >>)
      [] opcode = \H72 -> Break(<<"Sleeping">>)
      [] opcode = \H73 -> Break(<<"GotConfig", Config_from(b[1])>>)
      [] OTHER -> Continue

\* next_message reading one more byte after an opcode it does not know.
Reads_skip(f, opcode) ==
    IF f = "message"
    THEN IF opcode \in \H50..\H59 THEN MessageReads(opcode) ELSE <<NB>>
    ELSE ResponseReads(opcode)

\* next_message reading a 0x53 payload of 9 bytes.
Reads_over(f, opcode) ==
    IF f = "message"
    THEN IF opcode = \H53 THEN <<RE(9)>> ELSE MessageReads(opcode)
    ELSE ResponseReads(opcode)

\* next_response leaving the two reserved bytes of 0x73 unread.
Reads_short(f, opcode) ==
    IF f = "message" THEN MessageReads(opcode)
    ELSE IF opcode = \H73 THEN <<RE(1)>> ELSE ResponseReads(opcode)

\* The 0x54 arm taking 0x14 for "held".
Arm_button(f, opcode, b) ==
    IF f = "message"
    THEN IF opcode = \H54 /\ b[1] = \H14
         THEN Break(<<"ButtonEvent", <<"Held", "Two">> >>)
         ELSE MessageArm(opcode, b)
    ELSE ResponseArm(opcode, b)

\* next_message reading the payload of a response frame before it goes on.
Reads_both(f, opcode) ==
    IF f = "message" /\ opcode \in \H50..\H59 THEN MessageReads(opcode)
    ELSE ResponseReads(opcode)

\* The 0x56 arm taking the group from the reserved byte.
Arm_cleanup(f, opcode, b) ==
    IF f = "message"
    THEN IF opcode = \H56
         THEN Break(<<"LinkCleanupFailed", b[1], Address(<<b[2], b[3], b[4]>>)>>)
         ELSE MessageArm(opcode, b)
    ELSE ResponseArm(opcode, b)

\* The port reads, and the value, of the arm the decoder f matches opcode to.
Reads(f, opcode) == IF f = "message" THEN MessageReads(opcode) ELSE ResponseReads(opcode)
Arm(f, opcode, b) == IF f = "message" THEN MessageArm(opcode, b) ELSE ResponseArm(opcode, b)


(***************************************************************************)
(* The decode loop as a function of the stream: what a call of f that has  *)
(* consumed the first i bytes of s, and is at the start marker test, ends  *)
(* with when the source never fails and delivers no byte beyond s.         *)
(***************************************************************************)
Returned(v, end) == <<"returned", v, end>>
Waiting == <<"waiting">>
Panicked == <<"panicked">>

RECURSIVE ReadsLen(_)
ReadsLen(r) == IF r = <<>> THEN 0 ELSE Head(r)[2] + ReadsLen(Tail(r))

RECURSIVE Scan(_, _, _)
Scan(f, s, i) ==
    IF i >= Len(s) THEN Waiting
    ELSE IF s[i + 1] # START THEN Scan(f, s, i + 1)
    ELSE IF i + 1 >= Len(s) THEN Waiting
    ELSE LET opcode == s[i + 2]
             end == i + 2 + ReadsLen(Reads(f, opcode))
         IN  IF end > Len(s) THEN Waiting
             ELSE LET outcome == Arm(f, opcode, SubSeq(s, i + 3, end))
                  IN  CASE outcome[1] = "break" -> Returned(outcome[2], end)
                        [] outcome[1] = "continue" -> Scan(f, s, end)
                        [] outcome[1] = "unimplemented" -> Panicked

(***************************************************************************)
(* The byte source.  A segment is a frame or a stretch of other bytes; the *)
(* stream is the concatenation of its segments.  The frame formats (start  *)
(* marker, opcode, payload length per opcode) are those of the wire        *)
(* protocol, written down independently of the decoder's reads.            *)
(***************************************************************************)
MaxFrames == 2
MaxNoise == 2

MessageOpcodes == \H50..\H59
ResponseOpcodes == \H60..\H73

MsgLen(opcode) ==
    CASE opcode = \H50 -> 6  [] opcode = \H51 -> 20 [] opcode = \H52 -> 3
      [] opcode = \H53 -> 8  [] opcode = \H54 -> 1  [] opcode = \H55 -> 0
      [] opcode = \H56 -> 5  [] opcode = \H57 -> 8  [] opcode = \H58 -> 1
      [] opcode = \H59 -> 10

RspLen(opcode) ==
    CASE opcode = \H60 -> 6 [] opcode = \H61 -> 3 [] opcode = \H63 -> 3
      [] opcode = \H64 -> 2 [] opcode = \H66 -> 3 [] opcode = \H68 -> 1
      [] opcode = \H6B -> 1 [] opcode = \H6F -> 9 [] opcode = \H70 -> 1
      [] opcode = \H71 -> 2 [] opcode = \H73 -> 3 [] OTHER -> 0

RecognisedButtons == {\H02, \H03, \H04, \H12, \H13, \H14, \H22, \H23, \H24}
X10Parsable(p) == p[2] \in {\H00, \H80}

\* Payloads: a ramp gives every position its own value; the embedded pattern
\* puts start markers and opcodes of zero-length frames inside the payload.
Ramp(n, base) == [i \in 1..n |-> (base + i - 1) % 256]
RampBases == {\H00, \H0E}
EmbedPattern == <<\H02, \H55, \H02, \H6D>>
Embed(n) == [i \in 1..n |-> EmbedPattern[((i - 1) % 4) + 1]]

Payloads(n) ==
    IF n = 0 THEN {<<>>} ELSE {Ramp(n, base) : base \in RampBases} \cup {Embed(n)}

MsgPayloads(opcode) ==
    Payloads(MsgLen(opcode)) \cup
    CASE opcode = \H52 -> {<<\H6E, \H00, \H06>>, <<\H02, \H80, \H02>>}
      [] opcode = \H54 -> {<<\H13>>, <<\H24>>}
      [] opcode = \H58 -> {<<\H06>>}
      [] OTHER -> {}

RspPayloads(opcode) ==
    Payloads(RspLen(opcode)) \cup
    CASE opcode = \H63 -> {<<\H6E, \H00, \H06>>, <<\H02, \H80, \H02>>}
      [] opcode = \H61 -> {<<\H02, \H55, \H00>>}
      [] OTHER -> {}

Seg(kind, bytes) == [kind |-> kind, bytes |-> bytes]
Frame(opcode, payload) == <<START, opcode>> \o payload
Payload(seg) == SubSeq(seg.bytes, 3, Len(seg.bytes))

MsgKind(opcode, p) ==
    IF opcode = \H52 /\ ~X10Parsable(p) THEN "badx10"
    ELSE IF opcode = \H54 /\ p[1] \notin RecognisedButtons THEN "badbutton"
    ELSE "msg"

RspKind(opcode, p) ==
    IF opcode = \H62 THEN "unsupported"
    ELSE IF opcode = \H63 /\ ~X10Parsable(p) THEN "badx10"
    ELSE "rsp"

MsgSegs ==
    UNION {{Seg(MsgKind(o, p), Frame(o, p)) : p \in MsgPayloads(o)} : o \in MessageOpcodes}
RspSegs ==
    UNION {{Seg(RspKind(o, p), Frame(o, p)) : p \in RspPayloads(o)} : o \in ResponseOpcodes}
FrameSegs == MsgSegs \cup RspSegs

\* The frames that follow the first one of a stream.
TailSegs ==
    {Seg("msg", Frame(\H55, <<>>)), Seg("msg", Frame(\H50, Ramp(6, \H0E))),
     Seg("rsp", Frame(\H6D, <<>>)), Seg("rsp", Frame(\H61, Ramp(3, \H0E)))}

\* What may precede the first frame: bytes that are no start marker, a start
\* marker followed by a byte that is no opcode of either decoder, a frame the
\* decoders discard, or a lone start marker.
NoiseBytes == {\H55, \HFF}
SeqsUpTo(S, n) == UNION {[1..k -> S] : k \in 1..n}
NoiseSegs == {Seg("noise", w) : w \in SeqsUpTo(NoiseBytes, MaxNoise)}
AttemptSegs == {Seg("attempt", <<START, x>>) : x \in {\H00, \H02, \H4F, \H5A, \H74, \HFF}}
MarkerSeg == Seg("marker", <<START>>)
PrefixSegs ==
    NoiseSegs \cup AttemptSegs \cup {MarkerSeg}
    \cup {g \in FrameSegs : g.kind \in {"badx10", "badbutton"}}

RECURSIVE Tails(_)
Tails(n) ==
    IF n = 0 THEN {<<>>}
    ELSE LET shorter == Tails(n - 1)
         IN  shorter \cup {Append(t, g) : t \in shorter, g \in TailSegs}

FrameScenarios == {<<g>> \o t : g \in FrameSegs, t \in Tails(MaxFrames - 1)}
PrefixScenarios == {<<p, g>> : p \in PrefixSegs, g \in FrameSegs}
ResyncScenarios ==
    {<<Seg("attempt", <<START, x>>), Seg("msg", Frame(\H50, p))>> :
        x \in Byte \ MessageOpcodes, p \in Payloads(6)}
ButtonScenarios ==
    {<<Seg(MsgKind(\H54, <<b>>), Frame(\H54, <<b>>)), Seg("msg", Frame(\H55, <<>>))>> :
        b \in Byte}
\* A standard message whose two command bytes range over every first byte.
CommandScenarios ==
    {<<Seg("msg", Frame(\H50, <<\HA1, \HB2, \HC3, c, d, \H0F>>))>> :
        c \in Byte, d \in {\H00, \H01, \H07}}
\* A cleanup failure whose reserved byte, and a cleanup status whose byte,
\* range over every value.
CleanupScenarios ==
    {<<Seg("msg", Frame(\H56, <<x, \H11, \HA1, \HB2, \HC3>>))>> : x \in Byte}
    \cup {<<Seg("msg", Frame(\H58, <<x>>))>> : x \in Byte}
\* Streams whose bytes reach the port one at a time while the decoder runs.
TrickleScenarios ==
    {<<g>> : g \in MsgSegs}
    \cup {<<p, g>> : p \in NoiseSegs \cup AttemptSegs
                         \cup {b \in MsgSegs : b.kind \in {"badx10", "badbutton"}},
                     g \in TailSegs}

Scenarios ==
    FrameScenarios \cup PrefixScenarios \cup ResyncScenarios \cup ButtonScenarios
    \cup CommandScenarios \cup CleanupScenarios

RECURSIVE Flatten(_)
Flatten(ss) == IF ss = <<>> THEN <<>> ELSE Head(ss).bytes \o Flatten(Tail(ss))

(***************************************************************************)
(* Init: no call in progress, nothing read.                                *)
(***************************************************************************)
Init ==
    /\ \/ segs \in Scenarios /\ arrived = Len(Flatten(segs))
       \/ segs \in TrickleScenarios /\ arrived = 0
    /\ stream = Flatten(segs)
    /\ pos = 0
    /\ pc = "idle"
    /\ fn = "message"
    /\ op = 0
    /\ todo = <<>>
    /\ buf = <<>>
    /\ results = <<>>
    /\ spun = FALSE
    /\ panic = "none"
    /\ last_byte = NoByteYet
    /\ val = NoValue
    /\ hist = <<>>

(***************************************************************************)
(* The decoders, one port operation at a time.                             *)
(***************************************************************************)
Fns == {"message", "response"}

\* port.bytes_to_read()
Avail == arrived - pos

\* The decoder is inside next_byte.
AtNextByte ==
    \/ pc \in {"marker", "opcode"}
    \/ pc = "payload" /\ Head(todo)[1] = "next_byte"

\* The decoder is inside a payload read_exact.
AtReadExact == pc = "payload" /\ Head(todo)[1] = "read_exact"

\* How one iteration of `Some(loop { ... })` ends once its arm has its bytes.
Finish(outcome, newpos) ==
    CASE outcome[1] = "break" ->
            /\ results' = Append(results, [fn |-> fn, val |-> outcome[2], end |-> newpos])
            /\ pc' = "idle"
            /\ panic' = panic
      [] outcome[1] = "continue" ->
            /\ pc' = "marker"
            /\ UNCHANGED <<results, panic>>
      [] outcome[1] = "unimplemented" ->
            /\ pc' = "panicked"
            /\ panic' = "unimplemented"
            /\ UNCHANGED results

\* A caller calls next_message or next_response.
Call(f) ==
    /\ pc = "idle"
    /\ pc' = "marker"
    /\ fn' = f
    /\ UNCHANGED <<segs, stream, arrived, pos, op, todo, buf, results, spun, panic>>
    /\ UNCHANGED <<last_byte, val, hist>>

\* 0xFF taken for a start marker as well.
ReadMarker_any ==
    /\ pc = "marker"
    /\ Avail > 0
    /\ pos' = pos + 1
    /\ pc' = IF stream[pos + 1] \in {START, \HFF} THEN "opcode" ELSE "marker"
    /\ spun' = FALSE
    /\ last_byte' = Some(stream[pos + 1])
    /\ UNCHANGED <<segs, stream, arrived, fn, op, todo, buf, results, panic, val, hist>>

\* `if next_byte(port).unwrap() == 0x02`
ReadMarker ==
    /\ pc = "marker"
    /\ Avail > 0
    /\ pos' = pos + 1
    /\ pc' = IF stream[pos + 1] = START THEN "opcode" ELSE "marker"
    /\ spun' = FALSE
    /\ last_byte' = Some(stream[pos + 1])
    /\ UNCHANGED <<segs, stream, arrived, fn, op, todo, buf, results, panic, val, hist>>

\* A start marker in the opcode position taken as the start of a frame: the
\* byte after it is matched as an opcode.
ReadOpcode_resync ==
    /\ pc = "opcode"
    /\ Avail > 0
    /\ LET b == stream[pos + 1]
           r == Reads(fn, b)
       IN  /\ op' = b
           /\ pos' = pos + 1
           /\ buf' = <<>>
           /\ IF b = START
              THEN pc' = "opcode" /\ todo' = <<>> /\ UNCHANGED <<results, panic>>
              ELSE IF Len(r) = 0
                   THEN Finish(Arm(fn, b, <<>>), pos + 1) /\ todo' = <<>>
                   ELSE pc' = "payload" /\ todo' = r /\ UNCHANGED <<results, panic>>
    /\ spun' = FALSE
    /\ last_byte' = Some(stream[pos + 1])
    /\ UNCHANGED <<segs, stream, arrived, fn, val, hist>>

\* `match next_byte(port).unwrap() { ... }`: an arm without port reads ends
\* the iteration at once.
ReadOpcode ==
    /\ pc = "opcode"
    /\ Avail > 0
    /\ LET b == stream[pos + 1]
           r == Reads(fn, b)
       IN  /\ op' = b
           /\ pos' = pos + 1
           /\ buf' = <<>>
           /\ IF Len(r) = 0
              THEN Finish(Arm(fn, b, <<>>), pos + 1) /\ todo' = <<>>
              ELSE pc' = "payload" /\ todo' = r /\ UNCHANGED <<results, panic>>
    /\ spun' = FALSE
    /\ last_byte' = Some(stream[pos + 1])
    /\ UNCHANGED <<segs, stream, arrived, fn, val, hist>>

\* The arm's next read has its bytes.
TakePayload(n) ==
    LET b == buf \o SubSeq(stream, pos + 1, pos + n)
    IN  /\ pos' = pos + n
        /\ todo' = Tail(todo)
        /\ IF Len(todo) = 1
           THEN Finish(Arm(fn, op, b), pos + n) /\ buf' = <<>>
           ELSE buf' = b /\ UNCHANGED <<pc, results, panic>>
        /\ spun' = FALSE
        /\ UNCHANGED <<segs, stream, arrived, fn, op, val, hist>>

\* A payload byte read with next_byte(port).unwrap()
PayloadNextByte ==
    /\ pc = "payload"
    /\ Head(todo)[1] = "next_byte"
    /\ Avail > 0
    /\ TakePayload(1)
    /\ last_byte' = Some(stream[pos + 1])

\* A read_exact that wants one byte more than its buffer before it returns.
PayloadReadExact_strict ==
    /\ AtReadExact
    /\ Avail > Head(todo)[2]
    /\ TakePayload(Head(todo)[2])
    /\ UNCHANGED last_byte

\* A payload read with port.read_exact(&mut buf).unwrap(): it returns once
\* the port has delivered the whole buffer.
PayloadReadExact ==
    /\ AtReadExact
    /\ Avail >= Head(todo)[2]
    /\ TakePayload(Head(todo)[2])
    /\ UNCHANGED last_byte

\* next_byte returning None as soon as the source reports zero bytes.
PollEmpty_eof ==
    /\ AtNextByte
    /\ Avail = 0
    /\ pc' = "panicked"
    /\ panic' = "next_byte_read"
    /\ last_byte' = None
    /\ UNCHANGED <<segs, stream, arrived, pos, fn, op, todo, buf, results, spun, val, hist>>

\* next_byte: bytes_to_read() reported 0, the loop goes round again.
PollEmpty ==
    /\ AtNextByte
    /\ Avail = 0
    /\ spun' = TRUE
    /\ UNCHANGED <<segs, stream, arrived, pos, pc, fn, op, todo, buf, results, panic>>
    /\ UNCHANGED <<last_byte, val, hist>>

\* next_byte: bytes_to_read() fails, next_byte returns None, unwrap() panics.
QueryFails ==
    /\ AtNextByte
    /\ pc' = "panicked"
    /\ panic' = "bytes_to_read"
    /\ last_byte' = None
    /\ UNCHANGED <<segs, stream, arrived, pos, fn, op, todo, buf, results, spun, val, hist>>

\* next_byte: the one-byte read fails after bytes were reported available,
\* next_byte returns None, unwrap() panics.
ByteReadFails ==
    /\ AtNextByte
    /\ Avail > 0
    /\ pc' = "panicked"
    /\ panic' = "next_byte_read"
    /\ last_byte' = None
    /\ UNCHANGED <<segs, stream, arrived, pos, fn, op, todo, buf, results, spun, val, hist>>

\* A payload read_exact fails (the device errs, or the rest of the payload
\* does not come within the port's timeout); unwrap() panics.
ExactReadFails ==
    /\ AtReadExact
    /\ pc' = "panicked"
    /\ panic' = "read_exact"
    /\ UNCHANGED <<segs, stream, arrived, pos, fn, op, todo, buf, results, spun>>
    /\ UNCHANGED <<last_byte, val, hist>>

\* The modem's next byte reaches the port.
Arrive ==
    /\ pc # "panicked"
    /\ arrived < Len(stream)
    /\ arrived' = arrived + 1
    /\ UNCHANGED <<segs, stream, pos, pc, fn, op, todo, buf, results, spun, panic>>
    /\ UNCHANGED <<last_byte, val, hist>>

Decode ==
    \/ ReadMarker
    \/ ReadOpcode
    \/ PayloadNextByte
    \/ PayloadReadExact
    \/ PollEmpty

Next ==
    \/ \E f \in Fns : Call(f)
    \/ Decode
    \/ QueryFails
    \/ ByteReadFails
    \/ ExactReadFails
    \/ Arrive

Spec == Init /\ [][Next]_vars

(***************************************************************************)
(* The same decoders on streams that arrive byte by byte, with a modem     *)
(* that keeps sending (WF on Arrive) and a caller's thread that keeps      *)
(* running the decode call it is in (WF on Decode).                        *)
(***************************************************************************)
InitLive ==
    /\ segs \in TrickleScenarios
    /\ stream = Flatten(segs)
    /\ arrived = 0
    /\ pos = 0
    /\ pc = "idle"
    /\ fn = "message"
    /\ op = 0
    /\ todo = <<>>
    /\ buf = <<>>
    /\ results = <<>>
    /\ spun = FALSE
    /\ panic = "none"
    /\ last_byte = NoByteYet
    /\ val = NoValue
    /\ hist = <<>>

FairSpec == InitLive /\ [][Next]_vars /\ WF_vars(Arrive) /\ WF_vars(Decode)


(***************************************************************************)
(* The codecs on their own.  A caller starts with a value (a byte, a pair  *)
(* of command bytes, a Command, a Config, three X10 bytes) and applies to  *)
(* it, up to MaxApply times in a row, any codec function that takes it; an *)
(* Option result is matched, and what Some holds is the value at hand next.*)
(***************************************************************************)
MaxApply == 3

Groups == {GroupNumber(g) : g \in Byte}
OptionalGroups == {None} \cup {Some(g) : g \in Groups}
Commands ==
    {<<"On", p>> : p \in Groups \cup {OnLevel(v) : v \in Byte}}
    \cup {<<n, g>> : n \in {"FastOn", "Off", "FastOff", "Bright", "Dim"}, g \in OptionalGroups}
    \cup {<<"Start", <<"Bright">> >>, <<"Start", <<"Dim">> >>}
    \cup {<<"Stop">>, <<"IdRequest">>, <<"StatusRequest">>, <<"CancelLinking">>}
    \cup {<<n, g>> : n \in {"BeginLinking", "BeginUnlinking"}, g \in Groups}

Configs ==
    [auto_link : BOOLEAN, monitor : BOOLEAN, manual_led : BOOLEAN,
     timeout : BOOLEAN, busy_reject : BOOLEAN]

\* Pairs of command bytes: every second byte after each first byte the codec
\* knows and after the first bytes next to those, and second bytes at both
\* ends and in the middle of the range after every first byte.
CommandFirstBytes ==
    {\H11, \H12, \H13, \H14, \H15, \H16, \H17, \H18, \H10, \H19, \H09, \H0A, \H08}
Pairs ==
    {<<c, d>> : c \in CommandFirstBytes \cup {\H00, \H07, \H0B, \H0F, \H1A, \HFF},
                d \in Byte}
    \cup {<<c, d>> : c \in Byte, d \in {\H00, \H01, \H7F, \H80, \HFF}}

\* X10 triples: every first byte, with flags and status bytes at and next to
\* the values the parser looks for.
Triples ==
    {<<b, f, a>> : b \in Byte, f \in {\H00, \H01, \H7F, \H80, \H81, \HFF},
                   a \in {\H00, \H05, \H06, \H07, \H15, \HFF}}

\* Link payloads: every role byte, firmware bytes at and next to the sentinel,
\* and a different value at every other position.
Octets ==
    {<<r, \H21, \HA1, \HB2, \HC3, \H04, \H05, v>> : r \in Byte, v \in {\H00, \HFE, \HFF}}

\* Address bytes: both ends and the middle of the range at every position.
AddressBytes == {\H00, \H01, \H7F, \H80, \HFE, \HFF}
ByteTriples == AddressBytes \X AddressBytes \X AddressBytes

CodecInputs ==
    {<<"u8", b>> : b \in Byte}
    \cup {<<"[u8; 8]", o>> : o \in Octets}
    \cup {<<"[u8; 3]", t>> : t \in ByteTriples}
    \cup {<<"pair", p>> : p \in Pairs}
    \cup {<<"Command", c>> : c \in Commands}
    \cup {<<"Config", c>> : c \in Configs}
    \cup {<<"triple", t>> : t \in Triples}

CodecInit ==
    /\ val \in CodecInputs
    /\ hist = <<>>
    /\ segs = <<>>
    /\ stream = <<>>
    /\ arrived = 0
    /\ pos = 0
    /\ pc = "idle"
    /\ fn = "message"
    /\ op = 0
    /\ todo = <<>>
    /\ buf = <<>>
    /\ results = <<>>
    /\ spun = FALSE
    /\ panic = "none"
    /\ last_byte = NoByteYet

\* f(arg) returned out, and the caller goes on with next.
Apply(f, arg, out, next) ==
    /\ Len(hist) < MaxApply
    /\ hist' = Append(hist, [f |-> f, arg |-> arg, out |-> out])
    /\ val' = next
    /\ UNCHANGED <<segs, stream, arrived, pos, pc, fn, op, todo, buf, results, spun,
                   panic, last_byte>>

\* `if let Some(x) = out`
Matched(kind, out) == IF out = None THEN NoValue ELSE <<kind, out[2]>>

CommandTryFrom ==
    /\ val[1] = "pair"
    /\ LET out == Command_try_from(val[2])
       IN  Apply("Command::try_from", val[2], out, Matched("Command", out))

\* BeginUnlinking written with the first byte of BeginLinking.
CommandInto_unlink ==
    /\ val[1] = "Command"
    /\ LET c == val[2]
           out == IF c[1] = "BeginUnlinking" THEN <<\H09, c[2][2]>> ELSE Command_into(c)
       IN  Apply("Command::into", c, out, <<"pair", out>>)

CommandInto ==
    /\ val[1] = "Command"
    /\ LET out == Command_into(val[2])
       IN  Apply("Command::into", val[2], out, <<"pair", out>>)

ConfigFrom ==
    /\ val[1] = "u8"
    /\ LET out == Config_from(val[2])
       IN  Apply("Config::from", val[2], out, <<"Config", out>>)

ConfigInto ==
    /\ val[1] = "Config"
    /\ LET out == Config_into(val[2])
       IN  Apply("Config::into", val[2], out, <<"u8", out>>)

HouseCodeTryFrom ==
    /\ val[1] = "u8"
    /\ LET out == HouseCode_try_from(val[2])
       IN  Apply("HouseCode::try_from", val[2], out, Matched("HouseCode", out))

\* Unit codes numbered in the binary order of the nibbles.
UnitCodeTryFrom_binary ==
    /\ val[1] = "u8"
    /\ LET out == IF val[2] <= \H0F THEN Some(val[2] + 1) ELSE None
       IN  Apply("UnitCode::try_from", val[2], out, Matched("UnitCode", out))

UnitCodeTryFrom ==
    /\ val[1] = "u8"
    /\ LET out == UnitCode_try_from(val[2])
       IN  Apply("UnitCode::try_from", val[2], out, Matched("UnitCode", out))

X10CommandTryFrom ==
    /\ val[1] = "u8"
    /\ LET out == X10Command_try_from(val[2])
       IN  Apply("x10::Command::try_from", val[2], out, Matched("x10::Command", out))

X10MessageTryFrom ==
    /\ val[1] = "triple"
    /\ LET out == X10Message_try_from(val[2])
       IN  Apply("x10::Message::try_from", val[2], out, Matched("x10::Message", out))

LinkResultFrom ==
    /\ val[1] = "[u8; 8]"
    /\ LET out == LinkResult_from(val[2])
       IN  Apply("LinkResult::from", val[2], out, <<"LinkResult", out>>)

\* The methods of LinkResult, and what each returns for r.
LinkResultMethods ==
    {"LinkResult::group", "LinkResult::is_slave", "LinkResult::is_responder",
     "LinkResult::is_master", "LinkResult::is_controller", "LinkResult::deleted",
     "LinkResult::id", "LinkResult::category", "LinkResult::subcategory",
     "LinkResult::firmware"}
LinkResult_call(m, r) ==
    CASE m = "LinkResult::group" -> LinkResult_group(r)
      [] m = "LinkResult::is_slave" -> LinkResult_is_slave(r)
      [] m = "LinkResult::is_responder" -> LinkResult_is_responder(r)
      [] m = "LinkResult::is_master" -> LinkResult_is_master(r)
      [] m = "LinkResult::is_controller" -> LinkResult_is_controller(r)
      [] m = "LinkResult::deleted" -> LinkResult_deleted(r)
      [] m = "LinkResult::id" -> LinkResult_id(r)
      [] m = "LinkResult::category" -> LinkResult_category(r)
      [] m = "LinkResult::subcategory" -> LinkResult_subcategory(r)
      [] m = "LinkResult::firmware" -> LinkResult_firmware(r)
\* What the caller has at hand after method m returned out.
LinkResult_returns(m, out) ==
    CASE m = "LinkResult::group" -> <<"u8", out>>
      [] m = "LinkResult::id" -> <<"Address", out>>
      [] m \in {"LinkResult::category", "LinkResult::subcategory", "LinkResult::firmware"} ->
            Matched("u8", out)
      [] OTHER -> <<"bool", out>>

LinkResultMethod(m) ==
    /\ val[1] = "LinkResult"
    /\ LET out == LinkResult_call(m, val[2])
       IN  Apply(m, val[2], out, LinkResult_returns(m, out))

AddressFrom ==
    /\ val[1] = "[u8; 3]"
    /\ LET out == Address(val[2])
       IN  Apply("Address::from", val[2], out, <<"Address", out>>)

AddressIndex(index) ==
    /\ val[1] = "Address"
    /\ LET out == Address_index(val[2], index)
       IN  Apply("Address::index", <<val[2], index>>, out, <<"u8", out>>)

AddressReduce ==
    /\ val[1] = "Address"
    /\ LET out == Address_reduce(val[2])
       IN  Apply("Address::reduce", val[2], out, <<"u32", out>>)

CodecNext ==
    \/ CommandTryFrom
    \/ CommandInto
    \/ ConfigFrom
    \/ ConfigInto
    \/ HouseCodeTryFrom
    \/ UnitCodeTryFrom
    \/ X10CommandTryFrom
    \/ X10MessageTryFrom
    \/ LinkResultFrom
    \/ \E m \in LinkResultMethods : LinkResultMethod(m)
    \/ AddressFrom
    \/ \E index \in 0..2 : AddressIndex(index)
    \/ AddressReduce

CodecSpec == CodecInit /\ [][CodecNext]_vars


(***************************************************************************)
(* Properties                                                              *)
(***************************************************************************)
\* The number of stream bytes up to the end of segment k.
SegEnd(k) == Len(Flatten(SubSeq(segs, 1, k)))
FrameOp(g) == g.bytes[2]
\* The first k calls that returned were calls of next_message / next_response.
ByMessage(k) == \A j \in 1..k : results[j].fn = "message"
ByResponse(k) == \A j \in 1..k : results[j].fn = "response"
AllKind(K) == \A i \in 1..Len(segs) : segs[i].kind \in K
\* The position at which call k started reading.
StartOf(k) == IF k = 1 THEN 0 ELSE results[k - 1].end
\* The first bytes of the two-byte commands of the command codec.
CommandOpcodes ==
    {\H11, \H12, \H13, \H14, \H15, \H16, \H17, \H18, \H10, \H19, \H09, \H0A, \H08}
SourceFailures == {"bytes_to_read", "next_byte_read", "read_exact"}

\* C1: on [0x02, x, 0x02, 0x50, b0..b5] with x no message opcode, next_message
\* returns exactly one value, Received(Address[b0,b1,b2], Command::try_from([b3,b4]),
\* b5, None), and has consumed all ten bytes.
C1_Resynchronization ==
    (/\ Len(segs) = 2
     /\ segs[1].kind = "attempt"
     /\ segs[1].bytes[2] \notin MessageOpcodes
     /\ segs[2].kind = "msg"
     /\ FrameOp(segs[2]) = \H50
     /\ Len(results) >= 1
     /\ results[1].fn = "message")
    => LET b == Payload(segs[2])
       IN  /\ Len(results) = 1
           /\ results[1].val = <<"Received", Address(<<b[1], b[2], b[3]>>),
                                 Command_try_from(<<b[4], b[5]>>), b[6], None>>
           /\ results[1].end = 10

C1_Witness ==
    /\ Len(segs) = 2
    /\ segs[1].bytes = <<START, \HFF>>
    /\ segs[2].bytes = Frame(\H50, Embed(6))
    /\ Len(results) = 1
    /\ results[1].fn = "message"
    /\ pos = 10

\* C2: when the byte source fails during next_message or next_response, the
\* call returns None to its caller; it does not abort the process.
C2_SourceFailureIsAValue == ~(pc = "panicked" /\ panic \in SourceFailures)

\* C3: next_response reading 0x02, 0x62 reports an error to its caller; reading
\* 0x62 never aborts the process.
C3_UnsupportedIsAnError == ~(pc = "panicked" /\ panic = "unimplemented")

\* C4: on a concatenation of well-formed message frames, the k-th call of
\* next_message returns the value of the k-th frame and consumes exactly
\* 2 + length(opcode) bytes.
C4_MessageFramingInSync ==
    AllKind({"msg"}) =>
        \A k \in 1..Len(results) :
            ByMessage(k) =>
                /\ k <= Len(segs)
                /\ results[k].val = MessageArm(FrameOp(segs[k]), Payload(segs[k]))[2]
                /\ results[k].end - StartOf(k) = 2 + MsgLen(FrameOp(segs[k]))
                /\ results[k].end = SegEnd(k)

C4_Witness ==
    /\ Len(segs) = 2
    /\ segs[1].bytes = Frame(\H59, Embed(10))
    /\ segs[2].bytes = Frame(\H50, Ramp(6, \H0E))
    /\ Len(results) = 2
    /\ ByMessage(2)

\* C5: a 0x50 frame yields Received(address = bytes 0..2, command =
\* Command::try_from(bytes 3..4), flags = byte 5, no extended data); a 0x51 frame
\* yields the same with bytes 6..19 as the extended data; an unrecognised command
\* pair leaves the command absent and the frame still decodes.
C5_ReceivedDecode ==
    (/\ Len(results) >= 1
     /\ results[1].fn = "message"
     /\ segs[1].kind = "msg"
     /\ FrameOp(segs[1]) \in {\H50, \H51})
    => LET b == Payload(segs[1])
           v == results[1].val
       IN  /\ v[1] = "Received"
           /\ Len(v) = 5
           /\ v[2] = Address(<<b[1], b[2], b[3]>>)
           /\ v[3] = Command_try_from(<<b[4], b[5]>>)
           /\ (b[4] \in CommandOpcodes <=> v[3] # None)
           /\ v[4] = b[6]
           /\ v[5] = IF FrameOp(segs[1]) = \H50 THEN None ELSE Some(SubSeq(b, 7, 20))
           /\ results[1].end = Len(segs[1].bytes)

C5_Witness ==
    /\ segs[1].bytes = Frame(\H51, Ramp(20, \H00))
    /\ Len(results) >= 1
    /\ results[1].fn = "message"
    /\ results[1].val[3] = None
    /\ results[1].val[5] # None

\* The fields of a response that are its payload bytes, in order.
FieldsInOrder(opcode, p, v) ==
    CASE opcode = \H60 ->
            /\ v[1] = "GotInfo"
            /\ v[2] = Address(SubSeq(p, 1, 3))
            /\ v[3] = SubSeq(p, 4, 5)
            /\ v[4] = IF p[6] = \HFF THEN None ELSE Some(p[6])
      [] opcode = \H61 -> v[1] = "SentLinkCommand" /\ Tail(v) = p
      [] opcode = \H64 -> v[1] = "StartedLink" /\ Tail(v) = p
      [] opcode = \H66 ->
            /\ v[1] = "SetCategory"
            /\ v[2] = SubSeq(p, 1, 2)
            /\ v[3] = IF p[3] = \H00 THEN None ELSE Some(p[3])
      [] opcode = \H68 -> v[1] = "SetAckByte" /\ Tail(v) = p
      [] opcode = \H6B -> v[1] = "SetConfig" /\ v[2] = Config_from(p[1])
      [] opcode = \H6F ->
            /\ v[1] = "UpdatedLinkRecord"
            /\ <<v[2], v[3], v[4]>> = SubSeq(p, 1, 3)
            /\ v[5] = Address(SubSeq(p, 4, 6))
            /\ v[6] = SubSeq(p, 7, 9)
      [] opcode = \H70 -> v[1] = "SetNakByte" /\ Tail(v) = p
      [] opcode = \H71 -> v[1] = "SetAckBytes" /\ v[2] = p
      [] opcode = \H73 -> v[1] = "GotConfig" /\ v[2] = Config_from(p[1])
      [] OTHER -> Len(v) = 1

\* C6: every response opcode other than 0x62 decodes after a payload of fixed
\* length (0x60:6, 0x61:3, 0x63:3, 0x64:2, 0x66:3, 0x68:1, 0x6B:1, 0x6F:9, 0x70:1,
\* 0x71:2, 0x73:3, others 0); on a concatenation of well-formed response frames the
\* k-th call of next_response returns the k-th frame's value, its fields the
\* payload bytes in order.
C6_ResponseFramingInSync ==
    AllKind({"rsp"}) =>
        \A k \in 1..Len(results) :
            ByResponse(k) =>
                /\ k <= Len(segs)
                /\ results[k].val = ResponseArm(FrameOp(segs[k]), Payload(segs[k]))[2]
                /\ results[k].end - StartOf(k) = 2 + RspLen(FrameOp(segs[k]))
                /\ results[k].end = SegEnd(k)
                /\ FrameOp(segs[k]) # \H63 =>
                       FieldsInOrder(FrameOp(segs[k]), Payload(segs[k]), results[k].val)

C6_Witness ==
    /\ Len(segs) = 2
    /\ segs[1].bytes = Frame(\H6F, Embed(9))
    /\ segs[2].bytes = Frame(\H61, Ramp(3, \H0E))
    /\ Len(results) = 2
    /\ ByResponse(2)

\* C7: on a well-formed message frame m followed by a well-formed response frame
\* r, next_response returns the value of r; no byte of m's payload is read as a
\* start marker or an opcode.
C7_ResponseSkipsMessages ==
    (/\ Len(segs) = 2
     /\ segs[1].kind = "msg"
     /\ segs[2].kind = "rsp"
     /\ Len(results) >= 1
     /\ results[1].fn = "response")
    => /\ results[1].val = ResponseArm(FrameOp(segs[2]), Payload(segs[2]))[2]
       /\ results[1].end = Len(stream)

\* C8: a 0x52 frame (next_message) or 0x63 frame (next_response) whose three
\* payload bytes x10::Message::try_from rejects yields nothing; exactly its five
\* bytes are consumed and the well-formed frame right after it is the value
\* returned.
C8_BadX10Recovered ==
    (/\ Len(segs) >= 2
     /\ segs[1].kind = "badx10"
     /\ Len(results) >= 1
     /\ results[1].fn = (IF FrameOp(segs[1]) = \H52 THEN "message" ELSE "response")
     /\ segs[2].kind = (IF FrameOp(segs[1]) = \H52 THEN "msg" ELSE "rsp"))
    => /\ results[1].val = Arm(results[1].fn, FrameOp(segs[2]), Payload(segs[2]))[2]
       /\ results[1].end = 5 + Len(segs[2].bytes)

C8_Witness ==
    /\ Len(segs) = 2
    /\ segs[1].bytes = Frame(\H52, Embed(3))
    /\ segs[2].bytes = Frame(\H55, <<>>)
    /\ Len(results) = 1
    /\ results[1].fn = "message"
    /\ results[1].end = 7

\* The event a recognised button byte names: the high nibble is the button, the
\* low nibble what happened to it.
ExpectedButton(b) ==
    <<CASE b % 16 = 2 -> "Tapped" [] b % 16 = 3 -> "Held" [] b % 16 = 4 -> "Released",
      CASE b \div 16 = 0 -> "Set" [] b \div 16 = 1 -> "Two" [] b \div 16 = 2 -> "Three">>

\* C9: after [0x02, 0x54] the next byte selects one of nine button events; any of
\* the other 247 values produces no value and no error, the three bytes are
\* discarded and scanning resumes at the following byte.
C9_ButtonDispatch ==
    (/\ Len(segs) = 2
     /\ Len(segs[1].bytes) = 3
     /\ FrameOp(segs[1]) = \H54
     /\ segs[2].bytes = Frame(\H55, <<>>)
     /\ Len(results) >= 1
     /\ results[1].fn = "message")
    => LET b == segs[1].bytes[3]
       IN  IF b \in RecognisedButtons
           THEN /\ results[1].val = <<"ButtonEvent", ExpectedButton(b)>>
                /\ results[1].end = 3
           ELSE /\ results[1].val = <<"UserResetDetected">>
                /\ results[1].end = 5

C9_Witness ==
    /\ Len(segs) = 2
    /\ segs[1].bytes = Frame(\H54, <<\H25>>)
    /\ Len(results) = 1
    /\ results[1].fn = "message"
    /\ results[1].end = 5
    /\ panic = "none"

\* A stream that is framing noise (bytes that are no start marker, a start marker
\* with a byte that is no message opcode, a 0x54 frame with an unrecognised button
\* byte, a 0x52 frame with an unparsable payload), then one well-formed message
\* frame.
NoiseThenMessage ==
    /\ segs[Len(segs)].kind = "msg"
    /\ \A i \in 1..(Len(segs) - 1) :
           \/ segs[i].kind = "noise"
           \/ segs[i].kind = "attempt" /\ segs[i].bytes[2] \notin MessageOpcodes
           \/ segs[i].kind \in {"badx10", "badbutton"} /\ FrameOp(segs[i]) \in MessageOpcodes

\* C10: if the byte source never fails and delivers every byte of a noise prefix
\* followed by a well-formed message frame, next_message eventually returns that
\* frame's value, however the bytes' arrival is split.
C10_EventuallyReturns ==
    (/\ NoiseThenMessage
     /\ results = <<>>
     /\ fn = "message"
     /\ pc \in {"marker", "opcode", "payload"})
    ~> (\/ pc = "panicked" /\ panic \in SourceFailures
        \/ /\ Len(results) >= 1
           /\ results[1].fn = "message"
           /\ results[1].val = MessageArm(FrameOp(segs[Len(segs)]), Payload(segs[Len(segs)]))[2]
           /\ results[1].end = Len(stream))

C10_Witness ==
    /\ NoiseThenMessage
    /\ Len(segs) = 2
    /\ results = <<>>
    /\ fn = "message"
    /\ AtReadExact
    /\ Avail > 0
    /\ Avail < Head(todo)[2]

\* C11: next_byte does not return while the source reports zero bytes (that is
\* no error: nothing is read and the caller keeps waiting); a byte is read only
\* when at least one is reported available, exactly one, and it is the value
\* returned; next_byte returns None when the availability query fails, or when
\* the one-byte read fails after bytes were reported available, and then
\* nothing has been read.
C11_BytePolling ==
    [][AtNextByte =>
        /\ Avail = 0 =>
               /\ pos' = pos
               /\ \/ pc' = pc /\ last_byte' = last_byte
                  \/ pc' = "panicked" /\ panic' = "bytes_to_read" /\ last_byte' = None
        /\ pos' # pos =>
               /\ Avail > 0
               /\ pos' = pos + 1
               /\ last_byte' = Some(stream[pos + 1])
        /\ (pc' = "panicked" /\ pos' = pos) =>
               /\ last_byte' = None
               /\ panic' \in {"bytes_to_read", "next_byte_read"}
        /\ panic' = "next_byte_read" => Avail > 0]_vars

\* next_byte has polled an empty port, a byte has arrived since, and an
\* earlier call returned the start marker.
C11_Witness ==
    /\ pc = "opcode"
    /\ spun
    /\ Avail > 0
    /\ last_byte = Some(START)

(***************************************************************************)
(* Properties of the codecs, over the applications recorded in hist.       *)
(***************************************************************************)
Applications == 1..Len(hist)
\* Application i is g applied to what f, applied right before, returned (to
\* what its Some held, when it returned an Option).
RoundTrip(i, f, g) == i >= 2 /\ hist[i - 1].f = f /\ hist[i].f = g
\* The commands whose group is optional, and their first bytes.
GroupOptional == {"FastOn", "Off", "FastOff", "Bright", "Dim"}
GroupOptionalOpcodes == {\H12, \H13, \H14, \H15, \H16}

\* C12: for FastOn, Off, FastOff, Bright and Dim, an absent group is encoded as
\* data byte 0x00 and decoding the encoding yields an absent group; for every g
\* in 1..=255 decoding the encoding of Some(GroupNumber(g)) yields
\* Some(GroupNumber(g)); decoding data byte 0x00 yields absent, any g > 0 yields
\* Some(GroupNumber(g)).
C12_GroupOptionalRoundTrip ==
    \A i \in Applications :
        LET h == hist[i]
        IN  /\ (h.f = "Command::into" /\ h.arg[1] \in GroupOptional /\ h.arg[2] = None)
                   => h.out[2] = \H00
            /\ (h.f = "Command::try_from" /\ h.arg[1] \in GroupOptionalOpcodes)
                   => /\ h.out # None
                      /\ h.out[2][2] = IF h.arg[2] = \H00 THEN None
                                       ELSE Some(GroupNumber(h.arg[2]))
            /\ (/\ RoundTrip(i, "Command::into", "Command::try_from")
                /\ hist[i - 1].arg[1] \in GroupOptional
                /\ hist[i - 1].arg[2] # Some(GroupNumber(\H00)))
                   => h.out = Some(hist[i - 1].arg)

C12_Witness ==
    /\ Len(hist) >= 3
    /\ hist[1].f = "Command::into"
    /\ hist[1].arg = <<"FastOff", None>>
    /\ hist[2].out = Some(<<"FastOff", None>>)
    /\ hist[3].out = <<\H14, \H00>>

\* C13: for every byte v, On(GroupNumber(v)) and On(OnLevel(v)) both encode to
\* [0x11, v]; decoding [0x11, v] yields On(GroupNumber(v)), so decoding the
\* encoding of On(OnLevel(v)) yields On(GroupNumber(v)), and no decoded command
\* carries an OnLevel.
C13_OnLossy ==
    \A i \in Applications :
        LET h == hist[i]
        IN  /\ (h.f = "Command::into" /\ h.arg[1] = "On")
                   => h.out = <<\H11, h.arg[2][2]>>
            /\ (h.f = "Command::try_from" /\ h.arg[1] = \H11)
                   => h.out = Some(<<"On", GroupNumber(h.arg[2])>>)
            /\ (/\ RoundTrip(i, "Command::into", "Command::try_from")
                /\ hist[i - 1].arg[1] = "On")
                   => h.out = Some(<<"On", GroupNumber(hist[i - 1].arg[2][2])>>)
            /\ (h.f = "Command::try_from" /\ h.out # None /\ h.out[2][1] = "On")
                   => h.out[2][2][1] = "GroupNumber"

C13_Witness ==
    /\ Len(hist) >= 2
    /\ hist[1].f = "Command::into"
    /\ hist[1].arg = <<"On", OnLevel(\H05)>>
    /\ hist[2].out = Some(<<"On", GroupNumber(\H05)>>)

\* C14: decoding [0x17, d] yields Start(Bright) exactly when d = 0x01 and
\* Start(Dim) for every other d; Start(Bright) encodes to [0x17, 0x01] and
\* Start(Dim) to [0x17, 0x00]; decoding the encoding of Start(x) yields Start(x),
\* while encoding the decoding of [0x17, d] yields [0x17, d] only for d in
\* {0x00, 0x01}.
C14_StartDirection ==
    \A i \in Applications :
        LET h == hist[i]
        IN  /\ (h.f = "Command::try_from" /\ h.arg[1] = \H17)
                   => h.out = Some(<<"Start", IF h.arg[2] = \H01 THEN <<"Bright">>
                                              ELSE <<"Dim">> >>)
            /\ (h.f = "Command::into" /\ h.arg[1] = "Start")
                   => h.out = IF h.arg[2] = <<"Bright">> THEN <<\H17, \H01>>
                              ELSE <<\H17, \H00>>
            /\ (/\ RoundTrip(i, "Command::into", "Command::try_from")
                /\ hist[i - 1].arg[1] = "Start")
                   => h.out = Some(hist[i - 1].arg)
            /\ (/\ RoundTrip(i, "Command::try_from", "Command::into")
                /\ hist[i - 1].arg[1] = \H17)
                   => (h.out = hist[i - 1].arg <=> hist[i - 1].arg[2] \in {\H00, \H01})

C14_Witness ==
    /\ Len(hist) >= 2
    /\ hist[1].f = "Command::try_from"
    /\ hist[1].arg = <<\H17, \H02>>
    /\ hist[2].f = "Command::into"
    /\ hist[2].out = <<\H17, \H00>>

\* The first byte each variant of Command is written with.
OpcodeOf(variant) ==
    CASE variant = "On" -> \H11
      [] variant = "FastOn" -> \H12
      [] variant = "Off" -> \H13
      [] variant = "FastOff" -> \H14
      [] variant = "Bright" -> \H15
      [] variant = "Dim" -> \H16
      [] variant = "Start" -> \H17
      [] variant = "Stop" -> \H18
      [] variant = "IdRequest" -> \H10
      [] variant = "StatusRequest" -> \H19
      [] variant = "BeginLinking" -> \H09
      [] variant = "BeginUnlinking" -> \H0A
      [] variant = "CancelLinking" -> \H08

\* C15: encoding a Command yields two bytes, the first the opcode of its
\* variant; decoding a pair returns a command of the variant the first byte
\* names for exactly the 13 opcodes, and no command for each of the other 243
\* first bytes, whatever the second byte.
C15_OpcodeTable ==
    /\ Cardinality(CommandOpcodes) = 13
    /\ \A i \in Applications :
        LET h == hist[i]
        IN  /\ h.f = "Command::into"
                   => /\ h.out \in Byte \X Byte
                      /\ h.out[1] = OpcodeOf(h.arg[1])
            /\ h.f = "Command::try_from"
                   => IF h.arg[1] \in CommandOpcodes
                      THEN h.out # None /\ OpcodeOf(h.out[2][1]) = h.arg[1]
                      ELSE h.out = None

C15_Witness ==
    /\ Len(hist) >= 2
    /\ hist[1].f = "Command::try_from"
    /\ hist[1].arg = <<\H0A, \H07>>
    /\ hist[2].f = "Command::into"
    /\ hist[2].out = <<\H0A, \H07>>

\* C16: for all 32 combinations of the five flags, decoding the byte that
\* encoding a Config produced returns an equal Config.
C16_ConfigRoundTrip ==
    \A i \in Applications :
        RoundTrip(i, "Config::into", "Config::from") => hist[i].out = hist[i - 1].arg

C16_Witness ==
    /\ Len(hist) >= 2
    /\ hist[1].f = "Config::into"
    /\ hist[1].arg = [auto_link |-> FALSE, monitor |-> TRUE, manual_led |-> FALSE,
                      timeout |-> TRUE, busy_reject |-> TRUE]
    /\ hist[2].f = "Config::from"

\* Bit k of a byte (bit 7 the most significant).
BitOf(byte, k) == (byte \div (2 ^ k)) % 2

\* C17: encoding sets bit7 = NOT auto_link, bit6 = monitor, bit5 = manual_led,
\* bit4 = NOT timeout, bit3 = busy_reject and writes bits 2..0 as 0; decoding
\* reads the same five bits and ignores bits 2..0; the encoded byte is 0 exactly
\* for the default configuration, and clearing timeout in the default gives a
\* byte that is not 0.
C17_ConfigBitLayout ==
    \A i \in Applications :
        LET h == hist[i]
        IN  /\ h.f = "Config::into"
                   => /\ h.out \in Byte
                      /\ BitOf(h.out, 7) = 1 <=> ~h.arg.auto_link
                      /\ BitOf(h.out, 6) = 1 <=> h.arg.monitor
                      /\ BitOf(h.out, 5) = 1 <=> h.arg.manual_led
                      /\ BitOf(h.out, 4) = 1 <=> ~h.arg.timeout
                      /\ BitOf(h.out, 3) = 1 <=> h.arg.busy_reject
                      /\ h.out % 8 = 0
                      /\ h.out = 0 <=> h.arg = Config_default
                      /\ h.arg = [Config_default EXCEPT !.timeout = FALSE] => h.out # 0
            /\ h.f = "Config::from"
                   => /\ h.out = [auto_link   |-> BitOf(h.arg, 7) = 0,
                                  monitor     |-> BitOf(h.arg, 6) = 1,
                                  manual_led  |-> BitOf(h.arg, 5) = 1,
                                  timeout     |-> BitOf(h.arg, 4) = 0,
                                  busy_reject |-> BitOf(h.arg, 3) = 1]
                      /\ h.out = Config_from(h.arg - (h.arg % 8))

C17_Witness ==
    /\ Len(hist) >= 2
    /\ hist[1].f = "Config::from"
    /\ hist[1].arg = \H07
    /\ hist[1].out = Config_default
    /\ hist[2].f = "Config::into"
    /\ hist[2].out = \H00

\* The nibble table that a recorded application used.
NibbleTable(f, n) ==
    CASE f = "HouseCode::try_from" -> HouseCode_try_from(n)
      [] f = "UnitCode::try_from" -> UnitCode_try_from(n)
      [] f = "x10::Command::try_from" -> X10Command_try_from(n)
NibbleTables == {"HouseCode::try_from", "UnitCode::try_from", "x10::Command::try_from"}
Nibbles == \H0..\HF

\* C18: each of the three nibble tables maps the 16 nibbles to 16 pairwise
\* distinct values: what a nibble decodes to is the decoding of no other nibble,
\* so that an encoder can invert the table.
C18_TablesInvertible ==
    \A i \in Applications :
        LET h == hist[i]
        IN  (h.f \in NibbleTables /\ h.arg \in Nibbles)
                => /\ h.out # None
                   /\ \A m \in Nibbles : NibbleTable(h.f, m) = h.out => m = h.arg

\* The nibble of each index 1..16, and the house code of each index.
NibbleOrder ==
    <<\H6, \HE, \H2, \HA, \H1, \H9, \H5, \HD, \H7, \HF, \H3, \HB, \H0, \H8, \H4, \HC>>
HouseLetters ==
    <<"A", "B", "C", "D", "E", "F", "G", "H", "I", "J", "K", "L", "M", "N", "O", "P">>
IndexOf(n) == CHOOSE k \in 1..16 : NibbleOrder[k] = n

\* C19: HouseCode::try_from and UnitCode::try_from are total on 0x0..0xF and
\* follow the ordering 0x6->1, 0xE->2, 0x2->3, 0xA->4, 0x1->5, 0x9->6, 0x5->7,
\* 0xD->8, 0x7->9, 0xF->10, 0x3->11, 0xB->12, 0x0->13, 0x8->14, 0x4->15, 0xC->16
\* (house codes A..P are the indexes 1..16, a unit code is in 1..=16); both
\* return no value for every byte above 0x0F.
C19_NibblePermutation ==
    \A i \in Applications :
        LET h == hist[i]
        IN  /\ h.f = "HouseCode::try_from"
                   => h.out = IF h.arg \in Nibbles THEN Some(HouseLetters[IndexOf(h.arg)])
                              ELSE None
            /\ h.f = "UnitCode::try_from"
                   => /\ h.out = IF h.arg \in Nibbles THEN Some(IndexOf(h.arg)) ELSE None
                      /\ h.out # None => h.out[2] \in 1..16

C19_Witness ==
    /\ Len(hist) >= 3
    /\ hist[3].f = "UnitCode::try_from"
    /\ hist[3].arg = \H08
    /\ val = <<"UnitCode", 14>>

\* C20: x10::Message::try_from on [b0, flag, b2] takes the house code from the
\* high nibble of b0; with flag 0x00 the payload is the unit code of the low
\* nibble, with flag 0x80 the command of the low nibble, with any other flag
\* there is no parse result; success is true exactly when b2 = 0x06.
C20_X10MessageDecode ==
    \A i \in Applications :
        LET h == hist[i]
            high == h.arg[1] \div 16
            low == h.arg[1] % 16
        IN  h.f = "x10::Message::try_from"
                => IF h.arg[2] \notin {\H00, \H80} THEN h.out = None
                   ELSE /\ h.out # None
                        /\ h.out[2].house = HouseCode_try_from(high)[2]
                        /\ h.out[2].payload =
                               IF h.arg[2] = \H00
                               THEN <<"UnitCode", UnitCode_try_from(low)[2]>>
                               ELSE <<"Command", X10Command_try_from(low)[2]>>
                        /\ h.out[2].success = (h.arg[3] = \H06)

C20_Witness ==
    /\ Len(hist) = 1
    /\ hist[1].f = "x10::Message::try_from"
    /\ hist[1].arg = <<\H6E, \H00, \H06>>
    /\ hist[1].out = Some([house |-> "A", payload |-> <<"UnitCode", 2>>, success |-> TRUE])

\* C21: for every 8-byte payload exactly one of is_controller(), is_responder(),
\* deleted() holds (byte 0 = 0x01 controller, 0x00 responder, anything else
\* deleted); group is byte 1 and id bytes 2..4; category(), subcategory() and
\* firmware() return a value only for a controller, and firmware() none when
\* byte 7 is 0xFF.
C21_LinkResultRole ==
    \A i \in Applications :
        (i >= 2 /\ hist[i - 1].f = "LinkResult::from" /\ hist[i].f \in LinkResultMethods)
            => LET b == hist[i - 1].arg
                   m == hist[i].f
                   out == hist[i].out
               IN  CASE m \in {"LinkResult::is_controller", "LinkResult::is_master"} ->
                            out = (b[1] = \H01)
                     [] m \in {"LinkResult::is_responder", "LinkResult::is_slave"} ->
                            out = (b[1] = \H00)
                     [] m = "LinkResult::deleted" -> out = (b[1] \notin {\H00, \H01})
                     [] m = "LinkResult::group" -> out = b[2]
                     [] m = "LinkResult::id" -> out = Address(<<b[3], b[4], b[5]>>)
                     [] m = "LinkResult::category" ->
                            out = IF b[1] = \H01 THEN Some(b[6]) ELSE None
                     [] m = "LinkResult::subcategory" ->
                            out = IF b[1] = \H01 THEN Some(b[7]) ELSE None
                     [] m = "LinkResult::firmware" ->
                            out = IF b[1] = \H01 /\ b[8] # \HFF THEN Some(b[8]) ELSE None

C21_Witness ==
    /\ Len(hist) >= 2
    /\ hist[1].f = "LinkResult::from"
    /\ hist[1].arg[1] = \H02
    /\ hist[2].f = "LinkResult::deleted"
    /\ hist[2].out = TRUE

\* The variants of Response that the acknowledgement kinds of the claim name.
SpecifiedKinds ==
    {"ReadDatabaseBytes", "Beeping", "SetStatus", "SetLinkData", "SetRetries",
     "SetFrequencyOffset", "SetTempLincAck", "CanceledCleanup", "SentMessage"}
\* The variant next_response returns for the frame g, if it returns one.
KindOf(g) ==
    LET outcome == ResponseArm(FrameOp(g), Payload(g))
    IN  IF outcome[1] = "break" THEN outcome[2][1] ELSE "none"

\* C22: for each of ReadDatabaseBytes, Beeping, SetStatus, SetLinkData,
\* SetRetries, SetFrequencyOffset, SetTempLincAck, CanceledCleanup and SentMessage
\* there is a frame with an opcode in 0x60..0x73 for which next_response returns
\* that variant: it has been returned in this run, or some frame yields it.
C22_EveryKindProducible ==
    \A kind \in SpecifiedKinds :
        \/ \E k \in 1..Len(results) :
               results[k].fn = "response" /\ results[k].val[1] = kind
        \/ \E g \in RspSegs : KindOf(g) = kind

\* C23: Address passes its three bytes through (index i returns the i-th byte
\* it was made from) and reduce() is high*2^16 + middle*2^8 + low: below 2^24,
\* so within u32, and different for different addresses.
C23_AddressReduce ==
    \A i \in Applications :
        LET h == hist[i]
        IN  /\ RoundTrip(i, "Address::from", "Address::index")
                   => h.out = hist[i - 1].arg[h.arg[2] + 1]
            /\ h.f = "Address::reduce"
                   => LET b == h.arg[2]
                      IN  /\ h.out = b[1] * 65536 + b[2] * 256 + b[3]
                          /\ h.out \in 0..(2 ^ 24 - 1)
                          /\ h.out \div 65536 = b[1]
                          /\ (h.out \div 256) % 256 = b[2]
                          /\ h.out % 256 = b[3]
                          /\ \A t \in ByteTriples :
                                 Address_reduce(Address(t)) = h.out => t = b

C23_Witness ==
    /\ Len(hist) >= 2
    /\ hist[1].f = "Address::from"
    /\ hist[1].arg = <<\HFF, \H80, \H01>>
    /\ hist[2].f = "Address::reduce"
    /\ hist[2].out = 16744449

\* What decoding the encoding of the command c gives back, as the claim has it:
\* c itself, but for an on level, which comes back as a group, and for group 0
\* of a command whose group is optional, which comes back as no group.
ExpectedBack(c) ==
    CASE c[1] = "On" -> <<"On", GroupNumber(c[2][2])>>
      [] c[1] \in GroupOptional /\ c[2] = Some(GroupNumber(\H00)) -> <<c[1], None>>
      [] OTHER -> c

\* C28: for every Command c, decoding the encoding of c yields Some(c'), where
\* c' = c unless c is On(OnLevel(v)), then c' = On(GroupNumber(v)), or c is
\* FastOn, Off, FastOff, Bright or Dim with Some(GroupNumber(0)), then c' has an
\* absent group; and every decoded command is a fixed point: when try_from(b) is
\* Some(c), decoding the encoding of c yields Some(c) again.
C28_CommandRoundTrip ==
    \A i \in Applications :
        /\ RoundTrip(i, "Command::into", "Command::try_from")
               => hist[i].out = Some(ExpectedBack(hist[i - 1].arg))
        /\ (/\ i >= 3
            /\ hist[i - 2].f = "Command::try_from"
            /\ RoundTrip(i, "Command::into", "Command::try_from"))
               => /\ hist[i - 1].arg = hist[i - 2].out[2]
                  /\ hist[i].out = hist[i - 2].out

C28_Witness ==
    /\ Len(hist) = 3
    /\ hist[1].f = "Command::try_from"
    /\ hist[1].arg = <<\H12, \H00>>
    /\ hist[2].f = "Command::into"
    /\ hist[3].f = "Command::try_from"
    /\ hist[3].out = Some(<<"FastOn", None>>)

\* The value of a message frame with payload p, field by field.
MessageFields(opcode, p, v) ==
    CASE opcode = \H53 ->
            /\ Len(p) = 8
            /\ v = <<"LinkComplete", LinkResult_from(p)>>
            /\ v[2].group = p[2]
            /\ v[2].id = Address(SubSeq(p, 3, 5))
      [] opcode = \H55 -> p = <<>> /\ v = <<"UserResetDetected">>
      [] opcode = \H56 ->
            v = <<"LinkCleanupFailed", p[2], Address(SubSeq(p, 3, 5))>>
      [] opcode = \H57 ->
            v = <<"LinkRecordResponse", p[1], p[2], Address(SubSeq(p, 3, 5)),
                  LinkData(SubSeq(p, 6, 8))>>
      [] opcode = \H58 -> v = <<"LinkCleanupStatus", p[1] = \H06>>
      [] opcode = \H59 ->
            v = <<"DatabaseRecordFound", SubSeq(p, 1, 2), p[3], p[4],
                  Address(SubSeq(p, 5, 7)), LinkData(SubSeq(p, 8, 10))>>

\* C24: 0x53 builds LinkResult from its 8 bytes; 0x56 skips its first payload
\* byte whatever its value and yields LinkCleanupFailed(group = byte 1, address =
\* bytes 2..4); 0x57 yields LinkRecordResponse(flags = byte 0, group = byte 1,
\* address = bytes 2..4, link data = bytes 5..7); 0x58 yields
\* LinkCleanupStatus(true) exactly when its byte is 0x06; 0x59 yields
\* DatabaseRecordFound(bytes 0..1, flags = byte 2, group = byte 3, id = bytes
\* 4..6, link data = bytes 7..9); 0x55 yields UserResetDetected with no payload.
C24_MessageFields ==
    (/\ Len(results) >= 1
     /\ results[1].fn = "message"
     /\ segs[1].kind = "msg"
     /\ FrameOp(segs[1]) \in {\H53, \H55, \H56, \H57, \H58, \H59})
    => /\ MessageFields(FrameOp(segs[1]), Payload(segs[1]), results[1].val)
       /\ results[1].end = Len(segs[1].bytes)

C24_Witness ==
    /\ segs[1].bytes = Frame(\H56, <<\H02, \H11, \HA1, \HB2, \HC3>>)
    /\ Len(results) >= 1
    /\ results[1].fn = "message"
    /\ results[1].val = <<"LinkCleanupFailed", \H11, Address(<<\HA1, \HB2, \HC3>>)>>
    /\ results[1].end = 7

\* next_message has just read the byte after a start marker.
MessageOpcodeRead == fn = "message" /\ pc = "opcode" /\ pos' = pos + 1

\* C26: when the byte following a 0x02 is itself 0x02, next_message discards
\* both as an unrecognised attempt and tests the following byte only as a start
\* marker: on [0x02, 0x02, 0x55] it returns no value and keeps scanning, on
\* [0x02, 0x02, 0x02, 0x55] it returns UserResetDetected.
C26_MarkerAsOpcode ==
    /\ [][(MessageOpcodeRead /\ stream[pos + 1] = START)
              => pc' = "marker" /\ results' = results]_vars
    /\ [](stream = <<START, START, \H55>> =>
              /\ \A k \in 1..Len(results) : results[k].fn # "message"
              /\ (fn = "message" /\ pos = 3) => pc \in {"marker", "panicked"})
    /\ []((/\ stream = <<START, START, START, \H55>>
           /\ Len(results) >= 1
           /\ results[1].fn = "message")
              => /\ results[1].val = <<"UserResetDetected">>
                 /\ results[1].end = 4)

C26_Witness ==
    /\ stream = <<START, START, \H55>>
    /\ fn = "message"
    /\ pos = 3
    /\ pc = "marker"
    /\ results = <<>>

\* C27: next_message treats every response opcode 0x60..0x73 as unrecognised: it
\* consumes the marker and the opcode, not the response's payload, and scans the
\* payload bytes for a start marker; a payload that begins with 0x02 and a message
\* opcode, as in [0x02, 0x61, 0x02, 0x55, 0x00], makes next_message return the
\* message (UserResetDetected) built from bytes inside the response frame.
C27_ResponsePayloadScanned ==
    /\ [][(MessageOpcodeRead /\ stream[pos + 1] \in ResponseOpcodes)
              => /\ pc' = "marker"
                 /\ todo' = <<>>
                 /\ results' = results]_vars
    /\ []((/\ Len(segs[1].bytes) >= 4
           /\ segs[1].bytes[1] = START
           /\ segs[1].bytes[2] \in ResponseOpcodes
           /\ segs[1].bytes[3] = START
           /\ segs[1].bytes[4] = \H55
           /\ Len(results) >= 1
           /\ results[1].fn = "message")
              => /\ results[1].val = <<"UserResetDetected">>
                 /\ results[1].end = 4)

C27_Witness ==
    /\ stream = <<START, \H61, START, \H55, \H00>>
    /\ Len(results) = 1
    /\ results[1].fn = "message"
    /\ results[1].val = <<"UserResetDetected">>
    /\ results[1].end = 4

\* The opcodes the decoder f builds a value for, and their payload lengths.
Recognised(f) == IF f = "message" THEN MessageOpcodes ELSE ResponseOpcodes \ {\H62}
PayloadLen(f, opcode) == IF f = "message" THEN MsgLen(opcode) ELSE RspLen(opcode)
\* The bytes call k consumed end with a start marker, a recognised opcode right
\* after it and that opcode's whole payload, and the value is built from them.
FrameBefore(k) ==
    LET f == results[k].fn
        end == results[k].end
    IN  \E m \in (StartOf(k) + 1)..(end - 1) :
            /\ stream[m] = START
            /\ stream[m + 1] \in Recognised(f)
            /\ end = m + 1 + PayloadLen(f, stream[m + 1])
            /\ Arm(f, stream[m + 1], SubSeq(stream, m + 2, end)) = Break(results[k].val)
\* A decode outcome on a stream that follows n other bytes.
Shifted(outcome, n) ==
    IF outcome[1] = "returned" THEN Returned(outcome[2], outcome[3] + n) ELSE outcome

\* C25: a decode call returns a value only after it has consumed a start marker
\* immediately followed by a recognised opcode and that opcode's complete
\* payload; a byte that is no start marker, read where a start marker is looked
\* for, changes nothing but the position, so after a prefix of bytes without 0x02
\* the call returns the value, and leaves the rest of the stream, that it returns
\* and leaves without the prefix; on a stream without a start marker followed by
\* a recognised opcode it never returns a value.
C25_FrameStart ==
    /\ [][(pc = "marker" /\ pos' = pos + 1 /\ stream[pos + 1] # START)
              => /\ pc' = "marker"
                 /\ UNCHANGED <<fn, op, todo, buf, results, panic>>]_vars
    /\ [](\A k \in 1..Len(results) : FrameBefore(k))
    /\ [](\A k \in 1..Len(results) :
              Scan(results[k].fn, stream, StartOf(k))
                  = Returned(results[k].val, results[k].end))
    /\ [](segs[1].kind = "noise" =>
              LET n == Len(segs[1].bytes)
                  s == Flatten(Tail(segs))
              IN  /\ \A f \in Fns : Scan(f, stream, 0) = Shifted(Scan(f, s, 0), n)
                  /\ Len(results) >= 1 =>
                         LET alone == Scan(results[1].fn, s, 0)
                         IN  /\ alone[1] = "returned"
                             /\ results[1].val = alone[2]
                             /\ SubSeq(stream, results[1].end + 1, Len(stream))
                                    = SubSeq(s, alone[3] + 1, Len(s)))
    /\ [](\A k \in 1..Len(results) :
              \E m \in 1..(Len(stream) - 1) :
                  stream[m] = START /\ stream[m + 1] \in Recognised(results[k].fn))

\* After the noise 0xFF, 0x55 next_response has returned the value of the frame
\* that follows, and the stream is used up.
C25_Witness ==
    /\ Len(segs) = 2
    /\ segs[1].bytes = <<\HFF, \H55>>
    /\ segs[2].bytes = Frame(\H6F, Embed(9))
    /\ Len(results) = 1
    /\ results[1].fn = "response"
    /\ results[1].end = Len(stream)

====
